---- MODULE Spec2Model ----
(***************************************************************************)
(* BaseTrainer of src/common/trainer.py: construction (defaults, resume,   *)
(* preload), the train() loop with its checkpoint / validation cadence,    *)
(* the three checkpoint files, the best-score comparison, and              *)
(* metrics_visualization with its worker pool.                             *)
(***************************************************************************)
EXTENDS Integers, Sequences, FiniteSets, TLC

\* ---------------------------------------------------------------- bounds
MaxEpochs == 3      \* config trainer.train.epochs ranges over 1..MaxEpochs
MaxInterval == 2    \* save_checkpoint_interval in 0.., validation_interval in 1..
MaxScore == 2       \* finite metric scores are 0..MaxScore
MaxRuns == 2        \* processes (constructions of a trainer) per behaviour
MaxPairs == 2       \* audio pairs handed to metrics_visualization: 0..MaxPairs
MaxWorkers == 2     \* num_workers ranges over 1..MaxWorkers

Scores == 0..MaxScore

\* A state_dict is an opaque blob the trainer only copies: <<kind, run, epoch>>
\* names the call that produced it, so no two productions give equal blobs.
Blob(kind, run, e) == <<kind, run, e>>
NoBlob == Blob("none", 0, 0)
Epochs == 1..MaxEpochs

\* np.inf and -np.inf: above / below every finite score.
PosInf == MaxScore + 1
NegInf == 0 - PosInf

NoFile == [exists |-> FALSE]
NoKey == "<no key>"

\* ------------------------------------------------------------- file names
RECURSIVE Digits(_)
\* str(n) for n >= 0, as a sequence of decimal digits.
Digits(n) == IF n < 10 THEN <<n>> ELSE Digits(n \div 10) \o <<n % 10>>

RECURSIVE Zfill(_, _)
\* s.zfill(width): zeros on the left until the length is at least width.
Zfill(s, width) == IF Len(s) >= width THEN s ELSE Zfill(<<0>> \o s, width)

ZfillWidth == 4

LatestName == <<"latest_model.tar">>
BestName == <<"best_model.tar">>
\* f"model_{str(epoch).zfill(4)}.tar"
EpochName(epoch) == <<"model_">> \o Zfill(Digits(epoch), ZfillWidth) \o <<".tar">>

\* The names the checkpoints directory is observed at: the three kinds the
\* trainer writes, for every epoch number a run can reach, and a bystander.
OtherName == <<"events.log">>
FileNames == {LatestName, BestName, OtherName} \cup {EpochName(e) : e \in 0..(MaxEpochs + 1)}

\* A file outside the checkpoints directory that a config may name.
PreloadPaths == {"pre.tar", "missing.tar"}
ExternalFiles == [p \in PreloadPaths |-> IF p = "pre.tar" THEN [exists |-> TRUE, model |-> Blob("preloaded", 0, 0)] ELSE NoFile]

VARIABLES
    pc,                       \* position of the process ("new", "ready", the steps of train(), ...)
    runs,                     \* trainers constructed so far
    \* config["trainer"]: the experiment's configuration, read by every construction
    epochs, save_checkpoint_interval, validation_interval, save_max_metric_score,
    start_epoch, best_score, optimizer, model,
    epoch,                    \* loop variable of train()
    metric_score,             \* value returned by _validation_epoch
    files,                    \* the checkpoints directory: name -> record or NoFile
    ctor,                     \* arguments and outcome of the last construction
    call,                     \* what the last step called: op, epoch, is_best, ret
    trace,                    \* calls made by train() in the current epoch, in order
    seen,                     \* scores validated so far in this run
    run_start_best,           \* best_score when train() was entered
    val_score,                \* epoch -> score its latest validation returned
    rewritten,                \* a save wrote a per-epoch file that already existed
    last_save,                \* the trainer's fields as they were at the last save
    stop_best,                \* best_score held when last stopped at an epoch's end
    asserted,                 \* the assertions that have aborted a process so far
    mv,                       \* the running call of metrics_visualization
    writer                    \* scalars handed to self.writer.add_scalars, in order

vars == <<pc, runs, epochs, save_checkpoint_interval, validation_interval,
          save_max_metric_score, start_epoch, best_score, optimizer, model, epoch,
          metric_score, files, ctor, call, trace, seen, run_start_best, val_score,
          rewritten, last_save, stop_best, asserted, mv, writer>>

NoCall == [op |-> "none"]
NoCtor == [resume |-> FALSE, meta_path |-> "", top_path |-> NoKey,
           model |-> NoBlob, optimizer |-> NoBlob, outcome |-> "none"]
NoScore == 0 - 1
NoSave == [epoch |-> 0, best_score |-> NoScore, optimizer |-> NoBlob, model |-> NoBlob]

\* ------------------------------------------------------------ pure parts
\* __init__: self.best_score = -np.inf if self.save_max_metric_score else np.inf
DefaultBestScore(save_max) == IF save_max THEN NegInf ELSE PosInf

DefaultStartEpoch == 1

\* Faulty variant: the checkpoint is built with the best score of construction time.
CheckpointRecordStale(e, best, opt, mdl) ==
    [exists |-> TRUE, epoch |-> e, best_score |-> NegInf, optimizer |-> opt, model |-> mdl]

\* _save_checkpoint: the state_dict it builds.
CheckpointRecord(e, best, opt, mdl) ==
    [exists |-> TRUE, epoch |-> e, best_score |-> best, optimizer |-> opt, model |-> mdl]

\* Faulty variant: best_model.tar is written on every save.
SaveCheckpointAlwaysBest(fs, e, is_best_epoch, rec) ==
    [n \in FileNames |->
        IF n \in {LatestName, EpochName(e), BestName} THEN rec ELSE fs[n]]

\* _save_checkpoint: the three torch.save calls.
SaveCheckpoint(fs, e, is_best_epoch, rec) ==
    [n \in FileNames |->
        IF n = LatestName THEN rec
        ELSE IF n = EpochName(e) THEN rec
        ELSE IF n = BestName /\ is_best_epoch THEN rec
        ELSE fs[n]]

\* Faulty variant: strict comparisons, so a tie is not a best epoch.
IsBestEpochStrict(score, save_max, best) ==
    IF save_max /\ score > best THEN [ret |-> TRUE, best_score |-> score]
    ELSE IF ~save_max /\ score < best THEN [ret |-> TRUE, best_score |-> score]
    ELSE [ret |-> FALSE, best_score |-> best]

\* Faulty variant: the comparison of the max mode is used in both modes.
IsBestEpochMaxOnly(score, save_max, best) ==
    IF score >= best THEN [ret |-> TRUE, best_score |-> score]
    ELSE [ret |-> FALSE, best_score |-> best]

\* _is_best_epoch: the returned flag and the best_score it leaves.
IsBestEpoch(score, save_max, best) ==
    IF save_max /\ score >= best THEN [ret |-> TRUE, best_score |-> score]
    ELSE IF ~save_max /\ score <= best THEN [ret |-> TRUE, best_score |-> score]
    ELSE [ret |-> FALSE, best_score |-> best]

\* Faulty variant: the cadence counts epochs from 0.
CheckpointDueZeroBased(e, interval) == interval # 0 /\ (e - 1) % interval = 0

\* train(): the guard of the periodic checkpoint (short-circuit "and").
CheckpointDue(e, interval) == interval # 0 /\ e % interval = 0

\* train(): the guard of validation.
ValidationDue(e, interval) == e % interval = 0

\* Faulty variant: training restarts at the checkpoint's own epoch.
ResumeCheckpointSameEpoch(checkpoint) ==
    [start_epoch |-> checkpoint.epoch,
     best_score |-> checkpoint.best_score,
     optimizer |-> checkpoint.optimizer,
     model |-> checkpoint.model]

\* _resume_checkpoint: the fields it assigns from the loaded checkpoint.
ResumeCheckpoint(checkpoint) ==
    [start_epoch |-> checkpoint.epoch + 1,
     best_score |-> checkpoint.best_score,
     optimizer |-> checkpoint.optimizer,
     model |-> checkpoint.model]

\* __init__: the argument it hands to _preload_model, config["preloaded_model_path"]
\* (a top-level key), once config["meta"]["preloaded_model_path"] is truthy.
PreloadArgument(meta_path, top_path) == top_path

\* __init__ from the defaults on: the fields, and how construction ended.
Construct(resume, meta_path, top_path, mdl, opt, save_max, fs) ==
    LET d == [start_epoch |-> DefaultStartEpoch, best_score |-> DefaultBestScore(save_max),
              optimizer |-> opt, model |-> mdl]
        r == IF resume /\ fs[LatestName].exists THEN ResumeCheckpoint(fs[LatestName]) ELSE d
        arg == PreloadArgument(meta_path, top_path)
    IN  IF resume /\ ~fs[LatestName].exists
            THEN [state |-> d, outcome |-> "resume_assert"]
        ELSE IF meta_path = ""
            THEN [state |-> r, outcome |-> "ok"]
        ELSE IF arg = NoKey
            THEN [state |-> r, outcome |-> "KeyError"]
        ELSE IF ~ExternalFiles[arg].exists
            THEN [state |-> r, outcome |-> "preload_assert"]
        ELSE [state |-> [r EXCEPT !.model = ExternalFiles[arg].model], outcome |-> "preloaded"]

\* ------------------------------------------------- metrics_visualization
\* util.metrics.REGISTERED_METRICS.keys()
REGISTERED_METRICS == {"SI_SDR", "STOI", "WB_PESQ", "NB_PESQ"}

\* The metrics_list arguments tried: in both orders, with a third metric, with
\* a repeated one, lacking a required one, and with an unregistered name.
MetricLists ==
    {<<"STOI", "WB_PESQ">>, <<"WB_PESQ", "STOI">>, <<"SI_SDR", "STOI", "WB_PESQ">>,
     <<"STOI", "WB_PESQ", "STOI">>,
     <<>>, <<"STOI">>, <<"WB_PESQ", "SI_SDR">>, <<"STOI", "WB_PESQ", "MOS">>,
     <<"MOS", "WB_PESQ", "STOI">>}

Range(f) == {f[i] : i \in DOMAIN f}
Min(a, b) == IF a <= b THEN a ELSE b

\* A list of n waveforms of one kind ("clean", "noisy", "enhanced").
AudioList(kind, n) == [i \in 1..n |-> <<kind, i>>]

\* zip(a, b): pairs up to the shorter list.
Zip(a, b) == [i \in 1..Min(Len(a), Len(b)) |-> <<a[i], b[i]>>]

\* metrics.REGISTERED_METRICS[metric_name](ref, est): a function of its arguments.
Metric(metric_name, ref, est) == <<"score", metric_name, ref, est>>

\* np.mean of a list of scores, a function of the list as given.
Mean(scores) == <<"mean", scores>>

\* transform_pesq_range(mean_score_on_enhanced)
TransformPesqRange(x) == <<"transform_pesq_range", x>>

\* the literal 0.0 that stoi_mean and wb_pesq_mean start from
Zero == <<"0.0">>

\* (stoi_mean + wb_pesq_mean) / 2
Combined(stoi_mean, wb_pesq_mean) == <<"half_sum", stoi_mean, wb_pesq_mean>>

\* Faulty variant: only the presence of the two required metrics is asserted.
MetricsAssertedRequiredOnly(metrics_list) ==
    "STOI" \in Range(metrics_list) /\ "WB_PESQ" \in Range(metrics_list)

\* The two assertions at the head of metrics_visualization both pass.
MetricsAsserted(metrics_list) ==
    /\ "STOI" \in Range(metrics_list) /\ "WB_PESQ" \in Range(metrics_list)
    /\ \A i \in DOMAIN metrics_list : metrics_list[i] \in REGISTERED_METRICS

\* Faulty variant: the results are listed in the order the workers finished.
ParallelResultAsCompleted(results, order) == [i \in 1..Len(order) |-> results[order[i]]]

\* Parallel(n_jobs)(...): the list it returns, one result per task in the
\* order the tasks were given; order is the order the workers finished in.
ParallelResult(results, order) == [i \in 1..Len(order) |-> results[i]]

\* self.writer.add_scalars(f"{mark}_Validation/{metric_name}", {...}, epoch)
Scalars(metric_name, noisy, enhanced, e) ==
    [tag |-> metric_name, Noisy |-> noisy, Enhanced |-> enhanced, epoch |-> e]

\* stoi_mean / wb_pesq_mean after the two "if metric_name ==" statements.
StoiMean(metric_name, mean_enhanced, old) ==
    IF metric_name = "STOI" THEN mean_enhanced ELSE old

WbPesqMean(metric_name, mean_enhanced, old) ==
    IF metric_name = "WB_PESQ" THEN TransformPesqRange(mean_enhanced) ELSE old

NoList == <<>>
NoResult == <<"unset">>
MvIdle ==
    [mpc |-> "idle", metrics_list |-> NoList, clean_list |-> NoList,
     noisy_list |-> NoList, enhanced_list |-> NoList, num_workers |-> 0, epoch |-> 0,
     k |-> 0, phase |-> "none", dispatched |-> 0, running |-> {},
     results |-> <<>>, order |-> <<>>, score_on_noisy |-> NoList,
     stoi_mean |-> Zero, wb_pesq_mean |-> Zero, ret |-> NoResult, scored |-> 0]

\* ------------------------------------------------------------------ Init
EmptyDir == [n \in FileNames |-> NoFile]

Init ==
    /\ pc = "new"
    /\ runs = 0
    /\ epochs \in Epochs
    /\ save_checkpoint_interval \in 0..MaxInterval
    /\ validation_interval \in 1..MaxInterval
    /\ save_max_metric_score \in BOOLEAN
    /\ start_epoch = DefaultStartEpoch
    /\ best_score = DefaultBestScore(save_max_metric_score)
    /\ optimizer = NoBlob
    /\ model = NoBlob
    /\ epoch = 0
    /\ metric_score = NoScore
    /\ files = EmptyDir
    /\ ctor = NoCtor
    /\ call = NoCall
    /\ trace = <<>>
    /\ seen = {}
    /\ run_start_best = DefaultBestScore(save_max_metric_score)
    /\ val_score = [e \in {} |-> NoScore]
    /\ rewritten = FALSE
    /\ last_save = NoSave
    /\ stop_best = NoScore
    /\ asserted = {}
    /\ mv = MvIdle
    /\ writer = <<>>

\* --------------------------------------------------------------- actions
NoProcess == pc \in {"new", "done", "aborted", "stopped"}

\* BaseTrainer.__init__(config, resume, model, loss_function, optimizer).
\* A trainer with resume = False is given a fresh experiment directory.
New(resume, meta_path, top_path) ==
    /\ NoProcess
    /\ runs < MaxRuns
    /\ resume \/ files = EmptyDir
    /\ LET c == Construct(resume, meta_path, top_path, Blob("model", runs + 1, 0),
                          Blob("optimizer", runs + 1, 0), save_max_metric_score, files)
       IN  /\ pc' = IF c.outcome \in {"ok", "preloaded"} THEN "ready" ELSE "aborted"
           /\ start_epoch' = c.state.start_epoch
           /\ best_score' = c.state.best_score
           /\ optimizer' = c.state.optimizer
           /\ model' = c.state.model
           /\ ctor' = [resume |-> resume, meta_path |-> meta_path, top_path |-> top_path,
                       model |-> Blob("model", runs + 1, 0),
                       optimizer |-> Blob("optimizer", runs + 1, 0), outcome |-> c.outcome]
    /\ runs' = runs + 1
    /\ epoch' = 0
    /\ metric_score' = NoScore
    /\ call' = [op |-> "__init__"]
    /\ trace' = <<>>
    /\ seen' = {}
    /\ run_start_best' = DefaultBestScore(save_max_metric_score)
    /\ mv' = MvIdle
    /\ writer' = <<>>
    /\ asserted' = IF resume /\ ~files[LatestName].exists
                     THEN asserted \cup {"resume"} ELSE asserted
    /\ UNCHANGED <<epochs, save_checkpoint_interval, validation_interval,
                   save_max_metric_score, files, val_score, rewritten, last_save,
                   stop_best>>

\* train(): entering the for loop, range(self.start_epoch, self.epochs + 1).
TrainBegin ==
    /\ pc = "ready"
    /\ epoch' = start_epoch
    /\ pc' = IF start_epoch <= epochs THEN "train_epoch" ELSE "done"
    /\ run_start_best' = best_score
    /\ call' = [op |-> "train"]
    /\ trace' = <<>>
    /\ stop_best' = NoScore
    /\ UNCHANGED <<mv, writer, last_save, asserted>>
    /\ UNCHANGED <<runs, epochs, save_checkpoint_interval, validation_interval,
                   save_max_metric_score, start_epoch, best_score, optimizer, model,
                   metric_score, files, ctor, seen, val_score, rewritten>>

\* self._train_epoch(epoch): abstract; a subclass updates model and optimizer.
TrainEpoch ==
    /\ pc = "train_epoch"
    /\ model' = Blob("model", runs, epoch)
    /\ optimizer' = Blob("optimizer", runs, epoch)
    /\ pc' = "checkpoint"
    /\ call' = [op |-> "_train_epoch", epoch |-> epoch]
    /\ trace' = <<"train">>
    /\ ctor' = NoCtor
    /\ UNCHANGED <<mv, writer, last_save, stop_best, asserted>>
    /\ UNCHANGED <<runs, epochs, save_checkpoint_interval, validation_interval,
                   save_max_metric_score, start_epoch, best_score, epoch,
                   metric_score, files, seen, run_start_best, val_score, rewritten>>

\* train(): the periodic checkpoint.
PeriodicCheckpoint ==
    /\ pc = "checkpoint"
    /\ pc' = "validation"
    /\ IF CheckpointDue(epoch, save_checkpoint_interval)
         THEN /\ files' = SaveCheckpoint(files, epoch, FALSE,
                              CheckpointRecord(epoch, best_score, optimizer, model))
              /\ rewritten' = (rewritten \/ files[EpochName(epoch)].exists)
              /\ last_save' = [epoch |-> epoch, best_score |-> best_score,
                               optimizer |-> optimizer, model |-> model]
              /\ call' = [op |-> "_save_checkpoint", epoch |-> epoch, is_best_epoch |-> FALSE]
              /\ trace' = Append(trace, "save")
         ELSE /\ call' = NoCall
              /\ UNCHANGED <<files, rewritten, trace, last_save>>
    /\ UNCHANGED <<mv, writer, stop_best, asserted>>
    /\ UNCHANGED <<runs, epochs, save_checkpoint_interval, validation_interval,
                   save_max_metric_score, start_epoch, best_score, optimizer, model,
                   epoch, metric_score, ctor, seen, run_start_best, val_score>>

\* train(): metric_score = self._validation_epoch(epoch); abstract, a subclass
\* returns the score.
ValidationEpoch(score) ==
    /\ pc = "validation"
    /\ IF ValidationDue(epoch, validation_interval)
         THEN /\ metric_score' = score
              /\ pc' = "is_best"
              /\ call' = [op |-> "_validation_epoch", epoch |-> epoch]
              /\ trace' = Append(trace, "validation")
              /\ seen' = seen \cup {score}
              /\ val_score' = [e \in DOMAIN val_score \cup {epoch} |->
                                  IF e = epoch THEN score ELSE val_score[e]]
         ELSE /\ pc' = "epoch_end"
              /\ call' = NoCall
              /\ UNCHANGED <<metric_score, trace, seen, val_score>>
    /\ UNCHANGED <<mv, writer, last_save, stop_best, asserted>>
    /\ UNCHANGED <<runs, epochs, save_checkpoint_interval, validation_interval,
                   save_max_metric_score, start_epoch, best_score, optimizer, model,
                   epoch, files, ctor, run_start_best, rewritten>>

\* train(): if self._is_best_epoch(metric_score, ...): self._save_checkpoint(epoch, True)
BestEpoch ==
    /\ pc = "is_best"
    /\ pc' = "epoch_end"
    /\ LET b == IsBestEpoch(metric_score, save_max_metric_score, best_score)
       IN  /\ best_score' = b.best_score
           /\ call' = [op |-> "_is_best_epoch", epoch |-> epoch, ret |-> b.ret,
                       is_best_epoch |-> TRUE, before |-> best_score]
           /\ IF b.ret
                THEN /\ files' = SaveCheckpoint(files, epoch, TRUE,
                                     CheckpointRecord(epoch, b.best_score, optimizer, model))
                     /\ rewritten' = (rewritten \/ files[EpochName(epoch)].exists)
                     /\ last_save' = [epoch |-> epoch, best_score |-> best_score',
                                      optimizer |-> optimizer, model |-> model]
                     /\ trace' = Append(trace, "save_best")
                ELSE UNCHANGED <<files, rewritten, trace, last_save>>
    /\ UNCHANGED <<mv, writer, stop_best, asserted>>
    /\ UNCHANGED <<runs, epochs, save_checkpoint_interval, validation_interval,
                   save_max_metric_score, start_epoch, optimizer, model,
                   epoch, metric_score, ctor, seen, run_start_best, val_score>>

\* train(): the end of the loop body; the next epoch, or the loop is over.
EpochEnd ==
    /\ pc = "epoch_end"
    /\ epoch' = epoch + 1
    /\ pc' = IF epoch + 1 <= epochs THEN "train_epoch" ELSE "done"
    /\ call' = NoCall
    /\ trace' = <<>>
    /\ metric_score' = NoScore
    /\ UNCHANGED <<mv, writer, last_save, stop_best, asserted>>
    /\ UNCHANGED <<runs, epochs, save_checkpoint_interval, validation_interval,
                   save_max_metric_score, start_epoch, best_score, optimizer, model,
                   files, ctor, seen, run_start_best, val_score, rewritten>>

\* The process is stopped from outside between two calls of train(); only
\* the checkpoints directory survives.
Interrupt ==
    /\ pc \in {"ready", "train_epoch", "checkpoint", "validation", "is_best", "epoch_end",
              "metrics"}
    /\ pc' = "stopped"
    /\ start_epoch' = DefaultStartEpoch
    /\ best_score' = DefaultBestScore(save_max_metric_score)
    /\ optimizer' = NoBlob
    /\ model' = NoBlob
    /\ epoch' = 0
    /\ metric_score' = NoScore
    /\ ctor' = NoCtor
    /\ call' = NoCall
    /\ trace' = <<>>
    /\ seen' = {}
    /\ run_start_best' = DefaultBestScore(save_max_metric_score)
    /\ mv' = MvIdle
    /\ writer' = <<>>
    /\ stop_best' = IF pc = "epoch_end" THEN best_score ELSE NoScore
    /\ UNCHANGED <<runs, epochs, save_checkpoint_interval, validation_interval,
                   save_max_metric_score, files, val_score, rewritten, last_save,
                   asserted>>

\* metrics_visualization(noisy_list, clean_list, enhanced_list, metrics_list, epoch,
\* num_workers): the assertions, then the first Parallel call is set up.
MvBegin(metrics_list, n, num_workers, e) ==
    /\ pc = "ready"
    /\ mv.mpc = "idle"
    /\ LET args == [MvIdle EXCEPT !.metrics_list = metrics_list,
                                  !.clean_list = AudioList("clean", n),
                                  !.noisy_list = AudioList("noisy", n),
                                  !.enhanced_list = AudioList("enhanced", n),
                                  !.num_workers = num_workers, !.epoch = e]
       IN  IF MetricsAsserted(metrics_list)
             THEN /\ mv' = [args EXCEPT !.mpc = "parallel", !.k = 1, !.phase = "noisy"]
                  /\ pc' = "metrics"
                  /\ asserted' = asserted
             ELSE /\ mv' = [args EXCEPT !.mpc = "assert_failed"]
                  /\ pc' = "aborted"
                  /\ asserted' = asserted \cup {"metrics"}
    /\ call' = [op |-> "metrics_visualization"]
    /\ UNCHANGED <<runs, epochs, save_checkpoint_interval, validation_interval,
                   save_max_metric_score, start_epoch, best_score, optimizer, model,
                   epoch, metric_score, files, ctor, trace, seen, run_start_best,
                   val_score, rewritten, last_save, stop_best, writer>>

\* The estimates of the running Parallel call: noisy first, then enhanced.
MvEstimates == IF mv.phase = "noisy" THEN mv.noisy_list ELSE mv.enhanced_list
MvTasks == Zip(mv.clean_list, MvEstimates)

\* A worker of the pool takes the next task of the running Parallel call.
WorkerStart ==
    /\ pc = "metrics"
    /\ mv.mpc = "parallel"
    /\ mv.dispatched < Len(MvTasks)
    /\ Cardinality(mv.running) < mv.num_workers
    /\ mv' = [mv EXCEPT !.dispatched = @ + 1, !.running = @ \cup {mv.dispatched + 1}]
    /\ UNCHANGED <<pc, runs, epochs, save_checkpoint_interval, validation_interval,
                   save_max_metric_score, start_epoch, best_score, optimizer, model,
                   epoch, metric_score, files, ctor, call, trace, seen, run_start_best,
                   val_score, rewritten, last_save, stop_best, asserted, writer>>

\* A worker finishes its task: the metric of one (ref, est) pair.
WorkerFinish(i) ==
    /\ pc = "metrics"
    /\ mv.mpc = "parallel"
    /\ i \in mv.running
    /\ mv' = [mv EXCEPT
                !.running = @ \ {i},
                !.results = [j \in DOMAIN @ \cup {i} |->
                               IF j = i THEN Metric(mv.metrics_list[mv.k],
                                                    MvTasks[i][1], MvTasks[i][2])
                               ELSE @[j]],
                !.order = Append(@, i),
                !.scored = @ + 1]
    /\ UNCHANGED <<pc, runs, epochs, save_checkpoint_interval, validation_interval,
                   save_max_metric_score, start_epoch, best_score, optimizer, model,
                   epoch, metric_score, files, ctor, call, trace, seen, run_start_best,
                   val_score, rewritten, last_save, stop_best, asserted, writer>>

\* The running Parallel call returns its list. After the noisy scores the
\* enhanced ones are computed; after those the means are logged and the loop
\* goes to the next metric, or the combined score is returned.
MvCollect ==
    /\ pc = "metrics"
    /\ mv.mpc = "parallel"
    /\ mv.dispatched = Len(MvTasks)
    /\ mv.running = {}
    /\ LET scores == ParallelResult(mv.results, mv.order)
           metric_name == mv.metrics_list[mv.k]
           next == [mv EXCEPT !.dispatched = 0, !.results = <<>>, !.order = <<>>]
       IN  IF mv.phase = "noisy"
             THEN /\ mv' = [next EXCEPT !.phase = "enhanced", !.score_on_noisy = scores]
                  /\ UNCHANGED <<pc, writer>>
             ELSE LET mean_score_on_noisy == Mean(mv.score_on_noisy)
                      mean_score_on_enhanced == Mean(scores)
                      stoi == StoiMean(metric_name, mean_score_on_enhanced, mv.stoi_mean)
                      wb == WbPesqMean(metric_name, mean_score_on_enhanced, mv.wb_pesq_mean)
                      logged == [next EXCEPT !.stoi_mean = stoi, !.wb_pesq_mean = wb,
                                             !.score_on_noisy = NoList]
                  IN  /\ writer' = Append(writer, Scalars(metric_name, mean_score_on_noisy,
                                                          mean_score_on_enhanced, mv.epoch))
                      /\ IF mv.k < Len(mv.metrics_list)
                            THEN /\ mv' = [logged EXCEPT !.k = @ + 1, !.phase = "noisy"]
                                 /\ pc' = pc
                            ELSE /\ mv' = [logged EXCEPT !.mpc = "returned", !.phase = "none",
                                                         !.ret = Combined(stoi, wb)]
                                 /\ pc' = "ready"
    /\ UNCHANGED <<runs, epochs, save_checkpoint_interval, validation_interval,
                   save_max_metric_score, start_epoch, best_score, optimizer, model,
                   epoch, metric_score, files, ctor, call, trace, seen, run_start_best,
                   val_score, rewritten, last_save, stop_best, asserted>>

Next ==
    \/ \E resume \in BOOLEAN, meta_path \in {""} \cup PreloadPaths,
          top_path \in {NoKey} \cup PreloadPaths :
            New(resume, meta_path, top_path)
    \/ TrainBegin
    \/ TrainEpoch
    \/ PeriodicCheckpoint
    \/ \E score \in Scores : ValidationEpoch(score)
    \/ BestEpoch
    \/ EpochEnd
    \/ Interrupt

Spec == Init /\ [][Next]_vars

\* Construction and metrics_visualization, without train(): the experiment
\* directory is new, or holds the checkpoint an earlier run saved at epoch 1.
SavedDir ==
    SaveCheckpoint(EmptyDir, 1, TRUE,
                   CheckpointRecord(1, MaxScore, Blob("optimizer", 0, 1), Blob("model", 0, 1)))

SavedFields ==
    [epoch |-> 1, best_score |-> MaxScore, optimizer |-> Blob("optimizer", 0, 1),
     model |-> Blob("model", 0, 1)]

InitMetrics ==
    /\ pc = "new"
    /\ runs = 0
    /\ epochs = 1
    /\ save_checkpoint_interval = 0
    /\ validation_interval = 1
    /\ save_max_metric_score \in BOOLEAN
    /\ start_epoch = DefaultStartEpoch
    /\ best_score = DefaultBestScore(save_max_metric_score)
    /\ optimizer = NoBlob
    /\ model = NoBlob
    /\ epoch = 0
    /\ metric_score = NoScore
    /\ files \in {EmptyDir, SavedDir}
    /\ ctor = NoCtor
    /\ call = NoCall
    /\ trace = <<>>
    /\ seen = {}
    /\ run_start_best = DefaultBestScore(save_max_metric_score)
    /\ val_score = [e \in {} |-> NoScore]
    /\ rewritten = FALSE
    /\ last_save = IF files = EmptyDir THEN NoSave ELSE SavedFields
    /\ stop_best = NoScore
    /\ asserted = {}
    /\ mv = MvIdle
    /\ writer = <<>>

NextMetrics ==
    \/ \E resume \in BOOLEAN, meta_path \in {""} \cup PreloadPaths,
          top_path \in {NoKey} \cup PreloadPaths :
            New(resume, meta_path, top_path)
    \/ \E metrics_list \in MetricLists, n \in 0..MaxPairs, num_workers \in 1..MaxWorkers :
            MvBegin(metrics_list, n, num_workers, 1)
    \/ WorkerStart
    \/ \E i \in 1..MaxPairs : WorkerFinish(i)
    \/ MvCollect
    \/ Interrupt

SpecMetrics == InitMetrics /\ [][NextMetrics]_vars

\* ================================================================ claims
InRun == pc \in {"train_epoch", "checkpoint", "validation", "is_best", "epoch_end"}

\* ---------------------------------------------------------------- C1
\* C1: a trainer constructed with resume = True on a directory whose
\* latest_model.tar was written by _save_checkpoint(e) holds the best_score,
\* optimizer state and model state the saving trainer held at that save and
\* start_epoch = e + 1 (the model state unless a preload then replaced it),
\* and train() enters its loop at epoch e + 1.
C1_ResumeRoundTrip ==
    /\ (pc = "ready" /\ call.op = "__init__" /\ ctor.resume) =>
          /\ start_epoch = last_save.epoch + 1
          /\ best_score = last_save.best_score
          /\ optimizer = last_save.optimizer
          /\ (ctor.outcome = "ok" => model = last_save.model)
    /\ (call.op = "train" /\ ctor.resume) =>
          /\ epoch = last_save.epoch + 1
          /\ pc = (IF last_save.epoch + 1 <= epochs THEN "train_epoch" ELSE "done")

C1_Witness ==
    /\ pc = "train_epoch" /\ call.op = "train" /\ ctor.resume /\ ctor.outcome = "ok"
    /\ epoch = 3
    /\ start_epoch # DefaultStartEpoch
    /\ best_score # DefaultBestScore(save_max_metric_score)
    /\ model # ctor.model /\ optimizer # ctor.optimizer

\* ---------------------------------------------------------------- C2
\* C2: _is_best_epoch returns True and sets best_score to the score exactly
\* when (max mode and score >= best_score) or (min mode and score <=
\* best_score), a tie included; otherwise it returns False and best_score
\* stays as it was.
C2_IsBestEpoch ==
    [][(pc = "is_best" /\ pc' = "epoch_end") =>
         LET best == (save_max_metric_score /\ metric_score >= best_score)
                     \/ (~save_max_metric_score /\ metric_score <= best_score)
         IN  /\ call'.op = "_is_best_epoch"
             /\ call'.ret = best
             /\ best => best_score' = metric_score
             /\ ~best => best_score' = best_score]_vars

C2_Witness ==
    /\ call.op = "_is_best_epoch" /\ call.ret
    /\ call.before = metric_score /\ best_score = metric_score

\* ---------------------------------------------------------------- C3
RECURSIVE MaxOf(_)
MaxOf(S) == LET x == CHOOSE y \in S : TRUE
            IN  IF S = {x} THEN x
                ELSE LET m == MaxOf(S \ {x}) IN IF x >= m THEN x ELSE m

RECURSIVE MinOf(_)
MinOf(S) == LET x == CHOOSE y \in S : TRUE
            IN  IF S = {x} THEN x
                ELSE LET m == MinOf(S \ {x}) IN IF x <= m THEN x ELSE m

C3_Extremum ==
    (InRun /\ pc # "is_best") \/ (pc = "done" /\ call.op # "__init__") =>
        best_score = IF save_max_metric_score
                       THEN MaxOf(seen \cup {run_start_best})
                       ELSE MinOf(seen \cup {run_start_best})

C3_Monotone ==
    (InRun /\ pc' \in {"train_epoch", "checkpoint", "validation", "is_best",
                       "epoch_end", "done"}) =>
        IF save_max_metric_score THEN best_score' >= best_score
                                 ELSE best_score' <= best_score

\* C3: during train() best_score never decreases in max mode and never
\* increases in min mode, and once a validation has been compared it is the
\* maximum (minimum) of the scores validated in the run and the best_score
\* the run started with.
C3_BestScoreMonotone == [](C3_Extremum) /\ [][C3_Monotone]_vars

C3_Witness ==
    /\ pc = "epoch_end" /\ call.op = "_is_best_epoch" /\ ~call.ret
    /\ run_start_best \in Scores
    /\ Cardinality(seen) >= 2

\* ---------------------------------------------------------------- C4
C4_Expected(e) ==
    <<"train">>
    \o (IF save_checkpoint_interval # 0 /\ e % save_checkpoint_interval = 0
          THEN <<"save">> ELSE <<>>)
    \o (IF e % validation_interval = 0 THEN <<"validation">> ELSE <<>>)

C4_NotBestSave(x) == x # "save_best"

\* C4: in every epoch e of start_epoch..epochs, after _train_epoch(e), the
\* periodic _save_checkpoint(e) is taken iff save_checkpoint_interval # 0
\* and e mod save_checkpoint_interval = 0, then _validation_epoch(e) is run
\* iff e mod validation_interval = 0; an interval of 0 takes no periodic
\* checkpoint and the loop goes on.
C4_Cadence ==
    /\ InRun => (start_epoch <= epoch /\ epoch <= epochs)
    /\ pc = "epoch_end" => SelectSeq(trace, C4_NotBestSave) = C4_Expected(epoch)
    /\ (pc = "done" /\ call.op # "__init__") =>
          epoch = (IF start_epoch <= epochs THEN epochs + 1 ELSE start_epoch)

C4_Witness ==
    /\ pc = "epoch_end" /\ epoch = 2
    /\ trace = <<"train", "save", "validation">>

\* ---------------------------------------------------------------- C5
C5_IsSave(c) == c.op = "_save_checkpoint" \/ (c.op = "_is_best_epoch" /\ c.ret)

\* "model_" + the epoch as four decimal digits + ".tar", for an epoch < 10000
C5_PaddedName(e) ==
    <<"model_", (e \div 1000) % 10, (e \div 100) % 10, (e \div 10) % 10, e % 10, ".tar">>

\* C5: every _save_checkpoint(epoch, is_best_epoch) writes the one record
\* {epoch, best_score, optimizer, model} of the trainer to latest_model.tar
\* and to model_<epoch, 4 digits>.tar, to best_model.tar iff is_best_epoch,
\* and leaves every other file as it was.
C5_SaveLocations ==
    [][C5_IsSave(call') =>
         LET rec == [exists |-> TRUE, epoch |-> epoch, best_score |-> best_score',
                     optimizer |-> optimizer, model |-> model]
         IN  /\ files'[<<"latest_model.tar">>] = rec
             /\ files'[C5_PaddedName(epoch)] = rec
             /\ files'[<<"best_model.tar">>] =
                   (IF call'.is_best_epoch THEN rec ELSE files[<<"best_model.tar">>])
             /\ \A n \in DOMAIN files' :
                   n \notin {<<"latest_model.tar">>, <<"best_model.tar">>,
                             C5_PaddedName(epoch)} => files'[n] = files[n]
             /\ DOMAIN files' = DOMAIN files]_vars

C5_Witness ==
    /\ call.op = "_save_checkpoint" /\ ~call.is_best_epoch
    /\ files[BestName].exists
    /\ files[BestName] # files[LatestName]
    /\ files[LatestName] = files[EpochName(epoch)]
    /\ epoch = 2

\* ---------------------------------------------------------------- C6
\* C6: (1) a resume without latest_model.tar fails its assertion with
\* start_epoch, best_score, optimizer and model as construction set them;
\* (2) metrics_visualization fails its assertions, exactly when metrics_list
\* lacks "STOI" or "WB_PESQ" or holds an unregistered name, before any
\* metric is computed or scalar logged; either way the process is over.
C6_AssertionsAbortEarly ==
    /\ (call.op = "__init__" /\ ctor.resume) =>
          (ctor.outcome = "resume_assert" <=> ~files[<<"latest_model.tar">>].exists)
    /\ ctor.outcome = "resume_assert" =>
          /\ pc = "aborted"
          /\ start_epoch = 1
          /\ best_score = (IF save_max_metric_score THEN NegInf ELSE PosInf)
          /\ optimizer = ctor.optimizer
          /\ model = ctor.model
    /\ mv.mpc # "idle" =>
          (mv.mpc = "assert_failed" <=>
              \/ "STOI" \notin Range(mv.metrics_list)
              \/ "WB_PESQ" \notin Range(mv.metrics_list)
              \/ \E i \in DOMAIN mv.metrics_list :
                    mv.metrics_list[i] \notin REGISTERED_METRICS)
    /\ mv.mpc = "assert_failed" =>
          /\ pc = "aborted"
          /\ mv.scored = 0 /\ mv.dispatched = 0 /\ mv.running = {}
          /\ writer = <<>>
          /\ mv.ret = NoResult
    /\ pc = "aborted" => ~(ENABLED WorkerStart \/ ENABLED MvCollect)

C6_Witness ==
    /\ asserted = {"resume", "metrics"}
    /\ mv.mpc = "assert_failed"
    /\ "STOI" \in Range(mv.metrics_list) /\ "WB_PESQ" \in Range(mv.metrics_list)
    /\ Len(mv.clean_list) > 0

\* ---------------------------------------------------------------- C7
\* The sequential evaluation: the list comprehension over zip(refs, ests).
C7_Sequential(metric_name, refs, ests) ==
    [i \in 1..Min(Len(refs), Len(ests)) |-> Metric(metric_name, refs[i], ests[i])]

C7_Noisy(j) == C7_Sequential(mv.metrics_list[j], mv.clean_list, mv.noisy_list)
C7_Enhanced(j) == C7_Sequential(mv.metrics_list[j], mv.clean_list, mv.enhanced_list)

\* The scalars the sequential evaluation logs for the first j metrics.
C7_Logged(j) ==
    [i \in 1..j |-> [tag |-> mv.metrics_list[i], Noisy |-> Mean(C7_Noisy(i)),
                     Enhanced |-> Mean(C7_Enhanced(i)), epoch |-> mv.epoch]]

RECURSIVE C7_Stoi(_)
C7_Stoi(j) == IF j = 0 THEN Zero
              ELSE IF mv.metrics_list[j] = "STOI" THEN Mean(C7_Enhanced(j))
              ELSE C7_Stoi(j - 1)

RECURSIVE C7_WbPesq(_)
C7_WbPesq(j) == IF j = 0 THEN Zero
                ELSE IF mv.metrics_list[j] = "WB_PESQ"
                       THEN TransformPesqRange(Mean(C7_Enhanced(j)))
                ELSE C7_WbPesq(j - 1)

C7_NoDuplicates(s) == \A i, j \in DOMAIN s : s[i] = s[j] => i = j

\* C7: whatever the order the workers finish in and whatever num_workers,
\* each Parallel call yields the list of the sequential evaluation, every
\* pair is scored once per metric and list, and the scalars logged and the
\* combined score returned are those of the sequential evaluation.
C7_WorkerOrderIndependent ==
    /\ mv.mpc = "parallel" =>
          LET pairs == Min(Len(mv.clean_list), Len(MvEstimates))
              done == Range(mv.order)
          IN  /\ C7_NoDuplicates(mv.order)
              /\ done \cup mv.running = 1..mv.dispatched
              /\ done \cap mv.running = {}
              /\ Cardinality(mv.running) <= mv.num_workers
              /\ mv.dispatched = pairs =>
                    (mv.running = {} =>
                        ParallelResult(mv.results, mv.order) =
                            (IF mv.phase = "noisy" THEN C7_Noisy(mv.k) ELSE C7_Enhanced(mv.k)))
              /\ mv.phase = "enhanced" => mv.score_on_noisy = C7_Noisy(mv.k)
              /\ writer = C7_Logged(mv.k - 1)
              /\ mv.scored = 2 * pairs * (mv.k - 1)
                               + (IF mv.phase = "enhanced" THEN pairs ELSE 0)
                               + Len(mv.order)
    /\ mv.mpc = "returned" =>
          LET m == Len(mv.metrics_list)
          IN  /\ writer = C7_Logged(m)
              /\ mv.ret = Combined(C7_Stoi(m), C7_WbPesq(m))
              /\ mv.scored = 2 * Len(mv.clean_list) * m

C7_Witness ==
    /\ mv.mpc = "parallel" /\ mv.phase = "enhanced"
    /\ mv.order = <<2, 1>>
    /\ mv.k = Len(mv.metrics_list)
    /\ Len(writer) = 2

\* ---------------------------------------------------------------- C8
\* C8: once _save_checkpoint has written model_<epoch>.tar, no later
\* _save_checkpoint call writes that file again.
C8_PerEpochNeverRewritten == ~rewritten

\* ---------------------------------------------------------------- C9
\* C9: a constructor given a non-empty meta.preloaded_model_path naming an
\* existing file completes with the model loaded from that file's "model"
\* entry and start_epoch, best_score and optimizer untouched; naming a
\* missing file, it aborts on the assertion of _preload_model.
C9_Preload ==
    (call.op = "__init__" /\ ctor.meta_path # "" /\ ctor.outcome # "resume_assert") =>
        IF ExternalFiles[ctor.meta_path].exists
          THEN /\ pc = "ready"
               /\ model = ExternalFiles[ctor.meta_path].model
               /\ optimizer = (IF ctor.resume THEN last_save.optimizer ELSE ctor.optimizer)
               /\ start_epoch = (IF ctor.resume THEN last_save.epoch + 1 ELSE 1)
          ELSE pc = "aborted" /\ ctor.outcome = "preload_assert"

\* ---------------------------------------------------------------- C10
\* C10: in a run of train() started on an empty directory or resumed from
\* latest_model.tar, at the end of every epoch latest_model.tar and
\* best_model.tar, where they exist, record the trainer's best_score, and
\* best_model.tar records an epoch whose validation returned that score; a
\* resume after a completed epoch restores the best_score the stopped run held.
C10_PersistedBestScore ==
    /\ pc = "epoch_end" =>
          /\ files[LatestName].exists => files[LatestName].best_score = best_score
          /\ files[BestName].exists =>
                /\ files[BestName].best_score = best_score
                /\ files[BestName].epoch \in DOMAIN val_score
                /\ val_score[files[BestName].epoch] = best_score
    /\ (pc = "ready" /\ call.op = "__init__" /\ ctor.resume /\ stop_best # NoScore) =>
          best_score = stop_best

C10_Witness ==
    /\ pc = "epoch_end" /\ runs = 2 /\ epoch = 3
    /\ files[BestName].exists /\ files[BestName].epoch = 1
    /\ files[LatestName].epoch = 2
    /\ seen # {}

====
